---- MODULE Spec2Model ----
(***************************************************************************)
(* Model of LbnlIon7350Interface/getter.py: the batch and update modes of  *)
(* the ION 7350 reading getter.  Python 2 semantics (long, print , ).      *)
(***************************************************************************)
EXTENDS Integers, Sequences, FiniteSets, TLC

(***************************************************************************)
(* Python values.  A value is a record [t, v]: t is the Python type name,  *)
(* v the integer payload of a number (for a float, its integral part) or   *)
(* the character sequence of a str.                                        *)
(***************************************************************************)
NoneVal == [t |-> "NoneType", v |-> 0]

PyInt(n) == [t |-> "int", v |-> n]

PyLong(n) == [t |-> "long", v |-> n]

PyFloat(n) == [t |-> "float", v |-> n]

PyStrNum == [t |-> "str", v |-> 0]

NoDate == [t |-> "NoneType", v |-> <<>>]

PyStr(s) == [t |-> "str", v |-> s]

(***************************************************************************)
(* Characters, in ASCII order: str comparison in Python 2 is bytewise.     *)
(***************************************************************************)
Chars == << " ", "-", "0", "1", "2", "3", "4", "5", "6", "7", "8", "9", ":",
            "T", "a", "d", "e", "n", "o", "t" >>

Ord(c) == CHOOSE k \in 1..Len(Chars) : Chars[k] = c

Digits == {"0", "1", "2", "3", "4", "5", "6", "7", "8", "9"}

DigitVal(c) == Ord(c) - Ord("0")

DigitChar(n) == Chars[Ord("0") + n]

\* Python's str > str: the first differing byte decides; a proper prefix is smaller.
StrGt(a, b) ==
    LET n    == IF Len(a) < Len(b) THEN Len(a) ELSE Len(b)
        diff == { k \in 1..n : a[k] # b[k] }
    IN  IF diff = {} THEN Len(a) > Len(b)
        ELSE LET k == CHOOSE x \in diff : \A y \in diff : x <= y
             IN  Ord(a[k]) > Ord(b[k])

(***************************************************************************)
(* datetime values and the calendar.                                       *)
(***************************************************************************)
Dt(Y, m, d, H, M, S) == [Y |-> Y, m |-> m, d |-> d, H |-> H, M |-> M, S |-> S]

NoDt == [Y |-> 0, m |-> 0, d |-> 0, H |-> 0, M |-> 0, S |-> 0]

IsLeap(Y) == (Y % 4 = 0) /\ ((Y % 100 # 0) \/ (Y % 400 = 0))

DaysInMonth(Y, m) ==
    IF m = 2 THEN (IF IsLeap(Y) THEN 29 ELSE 28)
    ELSE IF m \in {4, 6, 9, 11} THEN 30 ELSE 31

\* Days of the year before the first of month m (datetime's _days_before_month).
DaysBeforeMonth(Y, m) ==
    << 0, 31, 59, 90, 120, 151, 181, 212, 243, 273, 304, 334 >>[m]
    + (IF m > 2 /\ IsLeap(Y) THEN 1 ELSE 0)

\* datetime.toordinal(): days since 0001-01-01, that day being 1.
Ordinal(dt) ==
    LET y == dt.Y - 1
    IN  y * 365 + (y \div 4) - (y \div 100) + (y \div 400)
        + DaysBeforeMonth(dt.Y, dt.m) + dt.d

\* Minutes since 0001-01-01 00:00 (the seconds are kept apart: the second
\* count of a date of this century does not fit 32 bits).
TotalMinutes(dt) == (Ordinal(dt) * 24 + dt.H) * 60 + dt.M

\* datetime < datetime and datetime > datetime
DtLess(a, b) ==
    \/ TotalMinutes(a) < TotalMinutes(b)
    \/ TotalMinutes(a) = TotalMinutes(b) /\ a.S < b.S

DtGreater(a, b) == DtLess(b, a)

\* The datetime constructor's range checks (ValueError otherwise).
ValidDt(dt) ==
    /\ dt.Y \in 1..9999
    /\ dt.m \in 1..12
    /\ dt.d \in 1..DaysInMonth(dt.Y, dt.m)
    /\ dt.H \in 0..23
    /\ dt.M \in 0..59
    /\ dt.S \in 0..59

(***************************************************************************)
(* datetime.strptime(date, '%Y-%m-%dT%H:%M:%S').  _strptime turns the      *)
(* format into the regular expression                                      *)
(*   (\d\d\d\d)-(1[0-2]|0[1-9]|[1-9])-(3[0-1]|[1-2]\d|0[1-9]|[1-9]| [1-9]) *)
(*   T(2[0-3]|[0-1]\d|\d):([0-5]\d|\d):(6[0-1]|[0-5]\d|\d)                 *)
(* compiled with IGNORECASE, matches it at the start of the string and     *)
(* then requires that no unconverted data remains.                         *)
(***************************************************************************)
At(s, p) == IF p \in 1..Len(s) THEN s[p] ELSE ""

Two(s, p) == DigitVal(At(s, p)) * 10 + DigitVal(At(s, p + 1))

BothDigits(s, p) == At(s, p) \in Digits /\ At(s, p + 1) \in Digits

\* Width matched by a directive at position p (0: no match).  In every
\* directive the two-character alternatives come before the one-digit one.
DirWidth(dir, s, p) ==
    CASE dir = "Y" ->
           IF \A k \in 0..3 : At(s, p + k) \in Digits THEN 4 ELSE 0
      [] dir = "m" ->
           IF BothDigits(s, p) /\ Two(s, p) \in 1..12 THEN 2
           ELSE IF At(s, p) \in Digits \ {"0"} THEN 1 ELSE 0
      [] dir = "d" ->
           IF BothDigits(s, p) /\ Two(s, p) \in 1..31 THEN 2
           ELSE IF At(s, p) \in Digits \ {"0"} THEN 1
           ELSE IF At(s, p) = " " /\ At(s, p + 1) \in Digits \ {"0"} THEN 2
           ELSE 0
      [] dir = "H" ->
           IF BothDigits(s, p) /\ Two(s, p) \in 0..23 THEN 2
           ELSE IF At(s, p) \in Digits THEN 1 ELSE 0
      [] dir = "M" ->
           IF BothDigits(s, p) /\ Two(s, p) \in 0..59 THEN 2
           ELSE IF At(s, p) \in Digits THEN 1 ELSE 0
      [] dir = "S" ->
           IF BothDigits(s, p) /\ Two(s, p) \in 0..61 THEN 2
           ELSE IF At(s, p) \in Digits THEN 1 ELSE 0

\* int() of the text of width w at p (a leading blank of %d counts as nothing).
DigitAt(s, p) == IF At(s, p) \in Digits THEN DigitVal(At(s, p)) ELSE 0

DirValue(s, p, w) ==
    IF w = 1 THEN DigitAt(s, p)
    ELSE IF w = 2 THEN DigitAt(s, p) * 10 + DigitAt(s, p + 1)
    ELSE DigitAt(s, p) * 1000 + DigitAt(s, p + 1) * 100
         + DigitAt(s, p + 2) * 10 + DigitAt(s, p + 3)

\* A literal of the format; IGNORECASE lets "T" match "t" as well.
LitWidth(lit, s, p) ==
    IF At(s, p) = lit \/ (lit = "T" /\ At(s, p) = "t") THEN 1 ELSE 0

\* The one element of a singleton set; { F(v) : v \in {e} } evaluates e once.
The(S) == CHOOSE x \in S : TRUE

\* One item of the format matched at the end of the match m so far:
\* m is [ok, end, f], f the values of the directives matched.
MatchDirAt(dir, s, m, w) ==
    IF ~m.ok \/ w = 0 THEN [ok |-> FALSE, end |-> m.end, f |-> m.f]
    ELSE [ok |-> TRUE, end |-> m.end + w, f |-> Append(m.f, DirValue(s, m.end, w))]

MatchDir(dir, s, m) ==
    The({ The({ MatchDirAt(dir, s, mv, w) : w \in {DirWidth(dir, s, mv.end)} })
          : mv \in {m} })

MatchLitAt(lit, s, m) ==
    IF ~m.ok \/ LitWidth(lit, s, m.end) = 0
    THEN [ok |-> FALSE, end |-> m.end, f |-> m.f]
    ELSE [ok |-> TRUE, end |-> m.end + 1, f |-> m.f]

MatchLit(lit, s, m) == The({ MatchLitAt(lit, s, mv) : mv \in {m} })

\* The match of '%Y-%m-%dT%H:%M:%S' at the start of s.
Match(s) ==
    LET m0  == [ok |-> TRUE, end |-> 1, f |-> <<>>]
        mY  == MatchLit("-", s, MatchDir("Y", s, m0))
        mm  == MatchLit("-", s, MatchDir("m", s, mY))
        md  == MatchLit("T", s, MatchDir("d", s, mm))
        mH  == MatchLit(":", s, MatchDir("H", s, md))
        mM  == MatchLit(":", s, MatchDir("M", s, mH))
    IN  MatchDir("S", s, mM)

\* strptime: "ok" is FALSE where Python raises ValueError.
StrptimeOf(s, r) ==
    LET dt == Dt(r.f[1], r.f[2], r.f[3], r.f[4], r.f[5], r.f[6])
    IN  IF r.ok /\ r.end = Len(s) + 1 /\ ValidDt(dt)
        THEN [ok |-> TRUE, dt |-> dt]
        ELSE [ok |-> FALSE, dt |-> NoDt]

Strptime(s) == The({ StrptimeOf(s, r) : r \in {Match(s)} })

\* get_date(date): the datetime, or None (here NoDt, ok = FALSE) when the
\* string is malformed.  A date that is no string makes strptime raise
\* TypeError, which get_date does not catch.
get_date(date) ==
    IF date.t # "str" THEN [raised |-> "TypeError", ok |-> FALSE, dt |-> NoDt]
    ELSE LET r == Strptime(date.v)
         IN  [raised |-> "", ok |-> r.ok, dt |-> r.dt]

(***************************************************************************)
(* Formatting.                                                             *)
(***************************************************************************)
Pad2(n) == << DigitChar(n \div 10), DigitChar(n % 10) >>

Pad4(n) == << DigitChar(n \div 1000), DigitChar((n \div 100) % 10),
              DigitChar((n \div 10) % 10), DigitChar(n % 10) >>

\* "%d" % n for 0 <= n <= 99: no padding.
Num(n) == IF n < 10 THEN << DigitChar(n) >> ELSE Pad2(n)

\* str(datetime) with no microseconds: 'YYYY-MM-DD HH:MM:SS'.
DtStr(dt) ==
    Pad4(dt.Y) \o <<"-">> \o Pad2(dt.m) \o <<"-">> \o Pad2(dt.d) \o <<" ">>
    \o Pad2(dt.H) \o <<":">> \o Pad2(dt.M) \o <<":">> \o Pad2(dt.S)

\* A zero-padded date string with the given separator between date and time.
IsoStr(dt, sep) ==
    PyStr(Pad4(dt.Y) \o <<"-">> \o Pad2(dt.m) \o <<"-">> \o Pad2(dt.d) \o <<sep>>
          \o Pad2(dt.H) \o <<":">> \o Pad2(dt.M) \o <<":">> \o Pad2(dt.S))

\* utils.format_dt: the formatter whose output run_batch parses back with
\* get_date, i.e. strftime('%Y-%m-%dT%H:%M:%S').
format_dt(dt) == IsoStr(dt, "T")

\* A date string a caller may type: the fields unpadded, and the separator
\* between date and time as given.
LooseStr(dt, sep) ==
    PyStr(Pad4(dt.Y) \o <<"-">> \o Num(dt.m) \o <<"-">> \o Num(dt.d) \o <<sep>>
          \o Num(dt.H) \o <<":">> \o Num(dt.M) \o <<":">> \o Num(dt.S))

\* utils.make_lucid_ts: the destination system's timestamp format; an
\* injective conversion of its argument.
make_lucid_ts(ts) == << "lucid", ts >>

(***************************************************************************)
(* timedelta arithmetic and the rounding of update mode.                   *)
(***************************************************************************)
PrevDay(dt) ==
    IF dt.d > 1 THEN [dt EXCEPT !.d = dt.d - 1]
    ELSE IF dt.m > 1
         THEN [dt EXCEPT !.m = dt.m - 1, !.d = DaysInMonth(dt.Y, dt.m - 1)]
         ELSE [dt EXCEPT !.Y = dt.Y - 1, !.m = 12, !.d = 31]

\* dt - timedelta(hours=n) for 0 <= n <= 24 (an interval is at most 12).
MinusHours(dt, n) ==
    IF dt.H >= n THEN [dt EXCEPT !.H = dt.H - n]
    ELSE [PrevDay(dt) EXCEPT !.H = dt.H + 24 - n]

\* The granularity, in minutes, utils.round_down rounds to.
Granularity == 15

\* utils.round_down(dt): dt rounded down to the granularity.
round_down(dt) == [dt EXCEPT !.M = dt.M - (dt.M % Granularity), !.S = 0]

(***************************************************************************)
(* Validation helpers.                                                     *)
(***************************************************************************)
MinInterval == 1

MaxInterval == 12

\* isinstance(x, (int, long)); bool is a subclass of int.
IsIntOrLong(x) == x.t \in {"int", "long", "bool"}

\* is_valid_interval with the upper bound excluded.
is_valid_interval_exclusive(interval) ==
    IF ~IsIntOrLong(interval) THEN FALSE
    ELSE IF interval.v < MinInterval \/ interval.v >= MaxInterval THEN FALSE
    ELSE TRUE

is_valid_interval(interval) ==
    IF ~IsIntOrLong(interval) THEN FALSE
    ELSE IF interval.v < MinInterval \/ interval.v > MaxInterval THEN FALSE
    ELSE TRUE

is_valid_index(x) ==
    IF ~IsIntOrLong(x) THEN FALSE
    ELSE IF x.v < 0 THEN FALSE
    ELSE TRUE

(***************************************************************************)
(* Bounds and the inputs drawn from them.                                  *)
(***************************************************************************)
MaxMeters == 2

MaxRows == 2

MaxIntervalInput == 13

Roots == {"root", "missing"}

\* utils.exists_dir(root)
exists_dir(r) == r = "root"

D1 == Dt(2023, 1, 1, 0, 0, 0)

D2 == Dt(2023, 2, 1, 0, 0, 0)

D3 == Dt(2023, 2, 10, 0, 0, 0)

D4 == Dt(2023, 10, 1, 0, 0, 0)

NotADate == PyStr(<< "n", "o", "t", "-", "a", "-", "d", "a", "t", "e" >>)

DateInputs ==
    { format_dt(D1), format_dt(D2), LooseStr(D3, "T"), LooseStr(D4, "T"),
      IsoStr(D1, "t"), format_dt(Dt(2023, 2, 30, 0, 0, 0)), NotADate, NoDate }

IndexInputs ==
    { NoneVal, PyLong(1), [t |-> "bool", v |-> 1], PyFloat(0), PyStrNum }
    \cup { PyInt(n) : n \in -1..MaxMeters }

IntervalInputs ==
    { NoneVal, PyLong(MaxInterval), PyLong(MaxInterval + 1),
      [t |-> "bool", v |-> 1], PyFloat(3), PyStrNum }
    \cup { PyInt(n) : n \in -1..MaxIntervalInput }

\* datetime.utcnow() at the time of an update run.
Nows == { Dt(2023, 1, 1, 2, 47, 31), Dt(2024, 3, 1, 5, 14, 59),
          Dt(2023, 10, 10, 12, 0, 0) }

\* A meter record of the meter file, with the accessors of utils.
Meter(k) == [ion_name |-> <<"ion", k>>, qid |-> 100 + k,
             lucid_id |-> <<"id", k>>, lucid_name |-> <<"name", k>>]

MeterList(n) == [k \in 1..n |-> Meter(k)]

\* What the database holds for the meter at position i: n readings.
Reading(i, j) == [TimestampUTC |-> <<"ts", i, j>>, Value |-> 10 * i + j]

Readings(i, n) == [j \in 1..n |-> Reading(i, j)]

(***************************************************************************)
(* State.                                                                  *)
(***************************************************************************)
VARIABLES
    mode,       \* which entry point the caller invokes: "batch" or "update"
    root,       \* the root argument
    interval,   \* run_update's interval argument
    now,        \* what datetime.utcnow() returns
    meters,     \* what utils.read_meter_file returns
    start,      \* run_batch's start argument
    end,        \* run_batch's end argument
    idx,        \* run_batch's idx argument
    pc,         \* position in the code
    i,          \* the loop variable of enumerate(meters)
    s_date,     \* get_date(start)
    e_date,     \* get_date(end)
    session,    \* the database session of Cursor.Cursor: "none", "open", "closed"
    acquired,   \* how many sessions were opened
    cursor,     \* the cursor's pending rows and rowcount
    returned,   \* history: the rows each successful query returned, by position
    executed,   \* history: the queries passed to cursor.execute, in order
    files,      \* the files of the file system written by the run: path -> rows
    openFile,   \* the path of the file open for writing, or <<>>
    opens,      \* history: how many times a file was opened for writing
    log,        \* the log and console lines, in order
    outcome,    \* "": running; "returned"; or the message of the exception raised
    fault,      \* history: an exception other than the per-meter query error occurred
    calls       \* history: the invocations of run_batch

env == << mode, root, interval, now, meters >>

args == << start, end, idx >>

dates == << s_date, e_date >>

db == << session, acquired, cursor, returned, executed >>

fs == << files, openFile, opens >>

vars == << env, args, dates, db, fs, pc, i, log, outcome, fault, calls >>

NoCursor == [rows |-> <<>>, rowcount |-> -1]

NoFiles == [p \in {} |-> <<>>]

Init ==
    /\ mode \in {"batch", "update"}
    /\ root \in Roots
    /\ meters \in { MeterList(n) : n \in 0..MaxMeters }
    /\ \/ /\ mode = "batch"
          /\ start \in DateInputs
          /\ end \in DateInputs
          /\ idx \in IndexInputs
          /\ interval = NoneVal
          /\ now = NoDt
       \/ /\ mode = "update"
          /\ interval \in IntervalInputs
          /\ now \in Nows
          /\ start = NoDate
          /\ end = NoDate
          /\ idx = NoneVal
    /\ pc = "call"
    /\ i = 0
    /\ s_date = NoDt
    /\ e_date = NoDt
    /\ session = "none"
    /\ acquired = 0
    /\ cursor = NoCursor
    /\ returned = NoFiles
    /\ executed = <<>>
    /\ files = NoFiles
    /\ openFile = <<>>
    /\ opens = 0
    /\ log = <<>>
    /\ outcome = ""
    /\ fault = FALSE
    /\ calls = <<>>

LogLine(kind, m) == [kind |-> kind, name |-> m.ion_name, qid |-> m.qid]

TimeLine(label) == [kind |-> "time", name |-> <<label>>, qid |-> 0]

\* raise: the exception leaves the entry point.
Raise(msg) ==
    /\ outcome' = msg
    /\ pc' = "done"

(***************************************************************************)
(* run_update                                                              *)
(***************************************************************************)
\* run_update without the rounding of the current time.
UpdateWindowUnrounded(dtnow, n) ==
    LET curr_dt_utc == dtnow
        prev_dt_utc == MinusHours(curr_dt_utc, n.v)
    IN  [start |-> format_dt(prev_dt_utc), end |-> format_dt(curr_dt_utc),
         idx |-> NoneVal]

\* The arguments run_update passes to run_batch.
UpdateWindow(dtnow, n) ==
    LET curr_dt_utc == round_down(dtnow)
        prev_dt_utc == MinusHours(curr_dt_utc, n.v)
    IN  [start |-> format_dt(prev_dt_utc), end |-> format_dt(curr_dt_utc),
         idx |-> NoneVal]

run_update ==
    /\ pc = "call"
    /\ mode = "update"
    /\ IF ~is_valid_interval(interval)
       THEN /\ Raise("Invalid interval")
            /\ UNCHANGED << args, calls >>
       ELSE LET w == UpdateWindow(now, interval)
            IN  /\ start' = w.start
                /\ end' = w.end
                /\ idx' = w.idx
                /\ calls' = Append(calls, [root |-> root, start |-> w.start,
                                           end |-> w.end, idx |-> w.idx])
                /\ pc' = "validate"
                /\ UNCHANGED outcome
    /\ UNCHANGED << env, dates, db, fs, i, log, fault >>

\* The caller invokes run_batch directly.
CallBatch ==
    /\ pc = "call"
    /\ mode = "batch"
    /\ calls' = Append(calls, [root |-> root, start |-> start, end |-> end,
                               idx |-> idx])
    /\ pc' = "validate"
    /\ UNCHANGED << env, args, dates, db, fs, i, log, outcome, fault >>

(***************************************************************************)
(* run_batch                                                               *)
(***************************************************************************)
\* The if/elif chain of the validation: the message raised, or "".
ValidationError(r, st, en, ix, s, e) ==
    IF ~s.ok \/ ~e.ok THEN "Invalid/missing dates"
    ELSE IF StrGt(st.v, en.v) THEN "Start date must come before end date"
    ELSE IF ~exists_dir(r) THEN "Root directory not found"
    ELSE IF ix.t # "NoneType" /\ ~is_valid_index(ix)
         THEN "Index must be non-negative integer"
    ELSE ""

Validate ==
    /\ pc = "validate"
    /\ LET s == get_date(start)
           e == IF s.raised = "" THEN get_date(end) ELSE s
       IN  IF s.raised # "" \/ e.raised # ""
           THEN /\ Raise("TypeError")
                /\ UNCHANGED dates
           ELSE /\ s_date' = s.dt
                /\ e_date' = e.dt
                /\ LET err == ValidationError(root, start, end, idx, s, e)
                   IN  IF err # "" THEN Raise(err)
                       ELSE pc' = "prepare" /\ UNCHANGED outcome
    /\ UNCHANGED << env, args, db, fs, i, log, fault, calls >>

\* Paths and the connection string are resolved, the start line is printed.
Prepare ==
    /\ pc = "prepare"
    /\ log' = Append(log, TimeLine("GETTER START"))
    /\ pc' = "acquire"
    /\ UNCHANGED << env, args, dates, db, fs, i, outcome, fault, calls >>

\* Cursor.__enter__: opens the connection and returns its cursor.
CursorEnter(s) == "open"

\* Cursor.__exit__: closes the cursor and the connection.
CursorExit(s) == "closed"

\* with Cursor.Cursor(cnxn_str) as cursor: dq, meters, and the loop begins.
EnterCursor ==
    /\ pc = "acquire"
    /\ session' = CursorEnter(session)
    /\ acquired' = acquired + 1
    /\ i' = 0
    /\ pc' = "loop"
    /\ UNCHANGED << env, args, dates, cursor, returned, executed, fs, log,
                    outcome, fault, calls >>

\* The connection cannot be opened: the exception leaves run_batch.
ConnectFail ==
    /\ pc = "acquire"
    /\ fault' = TRUE
    /\ Raise("pyodbc.Error")
    /\ UNCHANGED << env, args, dates, db, fs, i, log, calls >>

\* The index filter taking idx as one-based.
SkipMeterOneBased(ix, k) == ix.t # "NoneType" /\ ix.v # k + 1

\* if idx is not None and idx != i
SkipMeter(ix, k) == ix.t # "NoneType" /\ ix.v # k

LoopSkip ==
    /\ pc = "loop"
    /\ i < Len(meters)
    /\ SkipMeter(idx, i)
    /\ i' = i + 1
    /\ UNCHANGED << env, args, dates, db, fs, pc, log, outcome, fault, calls >>

QueryParams(m) == << m.ion_name, m.qid, DtStr(s_date), DtStr(e_date) >>

\* cursor.rowcount after a query that returned these rows.
RowCount(rows) == Len(rows)

\* cursor.execute succeeds.
ExecuteOk ==
    /\ pc = "loop"
    /\ i < Len(meters)
    /\ ~SkipMeter(idx, i)
    /\ \E n \in 0..MaxRows :
          LET rows == Readings(i, n)
          IN  /\ cursor' = [rows |-> rows, rowcount |-> RowCount(rows)]
              /\ returned' = (i :> rows) @@ returned
    /\ executed' = Append(executed, [i |-> i, params |-> QueryParams(meters[i + 1])])
    /\ pc' = "fetched"
    /\ UNCHANGED << env, args, dates, session, acquired, fs, i, log, outcome,
                    fault, calls >>

\* cursor.execute raises pyodbc.Error and the error is not caught per meter.
ExecuteErrorAborts ==
    /\ pc = "loop"
    /\ i < Len(meters)
    /\ ~SkipMeter(idx, i)
    /\ executed' = Append(executed, [i |-> i, params |-> QueryParams(meters[i + 1])])
    /\ session' = CursorExit(session)
    /\ Raise("pyodbc.Error")
    /\ UNCHANGED << env, args, dates, acquired, cursor, returned, fs, i, log,
                    fault, calls >>

\* cursor.execute raises pyodbc.Error: the error is logged, the loop continues.
ExecuteError ==
    /\ pc = "loop"
    /\ i < Len(meters)
    /\ ~SkipMeter(idx, i)
    /\ executed' = Append(executed, [i |-> i, params |-> QueryParams(meters[i + 1])])
    /\ log' = Append(log, LogLine("error", meters[i + 1]))
    /\ i' = i + 1
    /\ UNCHANGED << env, args, dates, session, acquired, cursor, returned, fs,
                    pc, outcome, fault, calls >>

\* The zero-row test taking "no rows" for a negative rowcount.
NoRowsNegative(c) == c.rowcount < 0

\* if cursor.rowcount == 0
NoRows(c) == c.rowcount = 0

NoData ==
    /\ pc = "fetched"
    /\ NoRows(cursor)
    /\ log' = Append(log, LogLine("warn", meters[i + 1]))
    /\ i' = i + 1
    /\ pc' = "loop"
    /\ UNCHANGED << env, args, dates, db, fs, outcome, fault, calls >>

\* defaults.downloads(root)
Downloads(r) == << r, "downloads" >>

\* dl_fname and os.path.join(output_dir, dl_fname)
FilePath(m) ==
    LET meterId    == m.lucid_id
        s_date_str == make_lucid_ts(DtStr(s_date))
        e_date_str == make_lucid_ts(DtStr(e_date))
    IN  [dir |-> Downloads(root),
         name |-> << meterId, "T", s_date_str, "T", e_date_str, ".csv" >>]

HeaderRow(m) == << m.lucid_id, m.lucid_name >>

\* open(path, 'wb') truncates; the header row is written.
OpenFile ==
    /\ pc = "fetched"
    /\ ~NoRows(cursor)
    /\ LET m    == meters[i + 1]
           path == FilePath(m)
       IN  /\ files' = [p \in DOMAIN files \cup {path} |->
                          IF p = path THEN << HeaderRow(m) >> ELSE files[p]]
           /\ openFile' = << path >>
    /\ opens' = opens + 1
    /\ log' = Append(log, LogLine("writing", meters[i + 1]))
    /\ pc' = "rows"
    /\ UNCHANGED << env, args, dates, db, i, outcome, fault, calls >>

\* The data row with the raw timestamp, not formatted.
DataRowRaw(row) == << row.TimestampUTC, row.Value >>

DataRow(row) == << make_lucid_ts(row.TimestampUTC), row.Value >>

\* for row in cursor: one row is fetched and written.
WriteRow ==
    /\ pc = "rows"
    /\ cursor.rows # <<>>
    /\ files' = [files EXCEPT ![openFile[1]] = Append(@, DataRow(Head(cursor.rows)))]
    /\ cursor' = [cursor EXCEPT !.rows = Tail(@)]
    /\ UNCHANGED << env, args, dates, session, acquired, returned, executed,
                    openFile, opens, pc, i, log, outcome, fault, calls >>

\* The cursor is exhausted: 'done' is printed and the file is closed.
CloseFile ==
    /\ pc = "rows"
    /\ cursor.rows = <<>>
    /\ log' = Append(log, LogLine("done", meters[i + 1]))
    /\ openFile' = <<>>
    /\ i' = i + 1
    /\ pc' = "loop"
    /\ UNCHANGED << env, args, dates, db, files, opens, outcome, fault, calls >>

\* The loop ends and the with block is left: Cursor.__exit__.
ExitCursor ==
    /\ pc = "loop"
    /\ i >= Len(meters)
    /\ session' = CursorExit(session)
    /\ pc' = "end"
    /\ UNCHANGED << env, args, dates, acquired, cursor, returned, executed, fs,
                    i, log, outcome, fault, calls >>

\* utils.print_time('GETTER END'); run_batch returns.
LogEnd ==
    /\ pc = "end"
    /\ log' = Append(log, TimeLine("GETTER END"))
    /\ outcome' = "returned"
    /\ pc' = "done"
    /\ UNCHANGED << env, args, dates, db, fs, i, fault, calls >>

\* The exception propagates without the session being released (no with).
UnexpectedLeak ==
    /\ pc \in {"loop", "fetched", "rows"}
    /\ fault' = TRUE
    /\ openFile' = <<>>
    /\ Raise("Exception")
    /\ UNCHANGED << env, args, dates, db, files, opens, i, log, calls >>

\* An exception other than the pyodbc.Error of cursor.execute is raised in
\* the with block (reading the meter file, opening or writing the file,
\* fetching a row): both with statements are left, the exception propagates.
Unexpected ==
    /\ pc \in {"loop", "fetched", "rows"}
    /\ fault' = TRUE
    /\ openFile' = <<>>
    /\ session' = CursorExit(session)
    /\ Raise("Exception")
    /\ UNCHANGED << env, args, dates, acquired, cursor, returned, executed,
                    files, opens, i, log, calls >>

Next ==
    \/ run_update
    \/ CallBatch
    \/ Validate
    \/ Prepare
    \/ EnterCursor
    \/ ConnectFail
    \/ LoopSkip
    \/ ExecuteOk
    \/ ExecuteError
    \/ NoData
    \/ OpenFile
    \/ WriteRow
    \/ CloseFile
    \/ ExitCursor
    \/ LogEnd
    \/ Unexpected

Spec == Init /\ [][Next]_vars

(***************************************************************************)
(* Vocabulary of the properties.                                           *)
(***************************************************************************)
DateError == "Invalid/missing dates"

OrderError == "Start date must come before end date"

RootError == "Root directory not found"

IndexError == "Index must be non-negative integer"

IntervalError == "Invalid interval"

\* run_batch was invoked and its validation has run.
Validated == calls # <<>> /\ pc \notin {"call", "validate"}

\* run_batch is past its validation: it is running after it, or it ended
\* in another way than by a validation error.
PassedValidation ==
    \/ pc \in {"prepare", "acquire", "loop", "fetched", "rows", "end"}
    \/ pc = "done" /\ outcome \in {"returned", "Exception", "pyodbc.Error"}

\* The date argument is a string that get_date parses.
Parses(date) == date.t = "str" /\ get_date(date).ok

Parsed(date) == get_date(date).dt

\* Python's notion of an integer: int, long, and bool, a subclass of int.
IsInteger(x) == x.t \in {"int", "long", "bool"}

IndexSupplied == idx.t # "NoneType"

\* The positions of the meter list that pass the index filter, in list order.
Expected ==
    SelectSeq([j \in 1..Len(meters) |-> j - 1],
              LAMBDA k : ~IndexSupplied \/ idx.v = k)

ExecutedPositions == [j \in 1..Len(executed) |-> executed[j].i]

IsPrefix(a, b) == Len(a) <= Len(b) /\ SubSeq(b, 1, Len(a)) = a

LogKinds(kind) == SelectSeq(log, LAMBDA l : l.kind = kind)

\* Positions whose query succeeded and returned at least one row.
WithData == { k \in DOMAIN returned : returned[k] # <<>> }

\* Positions whose query succeeded and returned no row.
WithoutData == { k \in DOMAIN returned : returned[k] = <<>> }

\* Positions whose query raised the database error.
Failed == { executed[j].i : j \in 1..Len(executed) } \ DOMAIN returned

(***************************************************************************)
(* C1: run_batch raises the start/end-ordering error whenever both date    *)
(* strings parse and start is not strictly before end (reversed or equal); *)
(* no query is ever executed with a window where start >= end.             *)
(* The code tests start > end on the raw strings, so this is violated.     *)
(***************************************************************************)
C1_OrderingErrorWheneverNotBefore ==
    (Validated /\ Parses(start) /\ Parses(end)
       /\ ~DtLess(Parsed(start), Parsed(end)))
    => (outcome = OrderError /\ executed = <<>>)

(***************************************************************************)
(* C2: run_batch checks (1) both dates parse, (2) start before end,        *)
(* (3) root exists, (4) a supplied index is a non-negative integer, in     *)
(* this order; the error raised is that of the first failing check, and    *)
(* when a check fails no session is acquired, no query executed, no file   *)
(* created and no start-of-run line logged.                                *)
(***************************************************************************)
FirstFailingCheck ==
    IF ~Parses(start) \/ ~Parses(end) THEN DateError
    ELSE IF ~DtLess(Parsed(start), Parsed(end)) THEN OrderError
    ELSE IF ~exists_dir(root) THEN RootError
    ELSE IF IndexSupplied /\ ~(IsInteger(idx) /\ idx.v >= 0) THEN IndexError
    ELSE ""

C2_FirstFailingCheckRaised ==
    (Validated /\ FirstFailingCheck # "")
    => /\ outcome = FirstFailingCheck
       /\ acquired = 0
       /\ session = "none"
       /\ executed = <<>>
       /\ DOMAIN files = {}
       /\ log = <<>>

C3_PerMeterErrorIsolation ==
    /\ IsPrefix(ExecutedPositions, Expected)
    /\ Len(LogKinds("error")) = Cardinality(Failed)
    /\ (pc = "done" /\ PassedValidation /\ ~fault)
       => /\ outcome = "returned"
          /\ ExecutedPositions = Expected
          /\ log[Len(log)] = TimeLine("GETTER END")

\* The first meter's query failed, the second one's was executed and wrote
\* its file, and the run returned.
C3_Witness ==
    /\ outcome = "returned"
    /\ Len(executed) >= 2
    /\ 0 \in Failed
    /\ 1 \in WithData
    /\ DOMAIN files # {}

(***************************************************************************)
(* C4: after a run that passed validation completes there is exactly one   *)
(* output file per meter that passed the filter, whose query succeeded     *)
(* and returned at least one row, and none for any other meter; a meter    *)
(* with zero rows or a database error only gets a warning or error line;   *)
(* the number of files written equals the number of meters with data.      *)
(***************************************************************************)
FileMeterIds == { p.name[1] : p \in DOMAIN files }

C4_OneFilePerMeterWithData ==
    /\ FileMeterIds \subseteq { meters[k + 1].lucid_id : k \in WithData }
    /\ opens <= Cardinality(WithData)
    /\ outcome = "returned"
       => /\ FileMeterIds = { meters[k + 1].lucid_id : k \in WithData }
          /\ Cardinality(DOMAIN files) = Cardinality(WithData)
          /\ opens = Cardinality(WithData)
          /\ \A k \in WithData : ~IndexSupplied \/ idx.v = k
          /\ LogKinds("warn") =
                SelectSeq([j \in 1..Len(meters) |-> LogLine("warn", meters[j])],
                          LAMBDA l : \E k \in WithoutData : l.name = meters[k + 1].ion_name)
          /\ LogKinds("error") =
                SelectSeq([j \in 1..Len(meters) |-> LogLine("error", meters[j])],
                          LAMBDA l : \E k \in Failed : l.name = meters[k + 1].ion_name)

\* A completed run in which one meter had data and another returned no row.
C4_Witness ==
    /\ outcome = "returned"
    /\ WithData # {}
    /\ WithoutData # {}
    /\ Cardinality(DOMAIN files) = 1

(***************************************************************************)
(* C5: the database session is acquired at most once per run_batch         *)
(* invocation and released on every exit path after it was acquired; when  *)
(* run_batch has returned or raised, no session is open.                   *)
(***************************************************************************)
C5_SessionReleased ==
    /\ acquired <= 1
    /\ acquired <= Len(calls)
    /\ session = "open" => acquired = 1 /\ pc \in {"loop", "fetched", "rows"}
    /\ pc \in {"end", "done"} => session # "open"
    /\ (pc \in {"end", "done"} /\ acquired = 1) => session = "closed"

\* An exception was raised while a file was being written (the file holds
\* fewer rows than the query returned) and the session is closed.
C5_Witness ==
    /\ pc = "done"
    /\ fault
    /\ acquired = 1
    /\ session = "closed"
    /\ \E k \in WithData : \E p \in DOMAIN files :
          /\ p.name[1] = meters[k + 1].lucid_id
          /\ Len(files[p]) < 1 + Len(returned[k])

(***************************************************************************)
(* C6: the index filter.  With a valid index idx only the meter at the     *)
(* zero-based position idx is queried and can get a file, whatever the     *)
(* length of the list; with idx not less than the number of meters no      *)
(* query is executed, no file is written and the run still completes       *)
(* normally; with no index every meter is queried.                         *)
(***************************************************************************)
AllPositions == [j \in 1..Len(meters) |-> j - 1]

C6_IndexFilter ==
    /\ IndexSupplied
       => /\ \A j \in 1..Len(executed) : executed[j].i = idx.v
          /\ Len(executed) <= 1
          /\ \A p \in DOMAIN files :
                idx.v < Len(meters) /\ p.name[1] = meters[idx.v + 1].lucid_id
    /\ (IndexSupplied /\ PassedValidation /\ idx.v >= Len(meters))
       => /\ executed = <<>>
          /\ DOMAIN files = {}
          /\ (pc = "done" /\ ~fault) => outcome = "returned"
    /\ (IndexSupplied /\ outcome = "returned" /\ idx.v < Len(meters))
       => ExecutedPositions = << idx.v >>
    /\ (~IndexSupplied /\ outcome = "returned")
       => ExecutedPositions = AllPositions

\* Index 1 of a list of at least two meters: the run completed, only the
\* second meter was queried, and its file was written.
C6_Witness ==
    /\ idx = PyInt(1)
    /\ Len(meters) >= 2
    /\ outcome = "returned"
    /\ ExecutedPositions = << 1 >>
    /\ FileMeterIds = { meters[2].lucid_id }

(***************************************************************************)
(* C7: for every valid interval n in 1..12 run_update invokes run_batch    *)
(* exactly once, with end = round_down(now) and start = round_down(now)    *)
(* minus n hours, both formatted, the same root and no index filter: every *)
(* configured meter is processed, and the window is exactly n hours long   *)
(* with start strictly before end.  s_date and e_date are what run_batch   *)
(* parses back from the two strings it was passed.                         *)
(***************************************************************************)
C7_UpdateInvokesBatch ==
    /\ Len(calls) <= 1
    /\ (mode = "update" /\ IsInteger(interval) /\ interval.v \in 1..12 /\ pc # "call")
       => /\ Len(calls) = 1
          /\ calls[1].root = root
          /\ calls[1].idx = NoneVal
          /\ calls[1].end = format_dt(round_down(now))
          /\ calls[1] = [root |-> root, start |-> start, end |-> end, idx |-> idx]
          /\ outcome \notin {DateError, OrderError, IndexError, IntervalError, "TypeError"}
          /\ Validated
             => /\ start = format_dt(s_date)
                /\ e_date = round_down(now)
                /\ TotalMinutes(e_date) - TotalMinutes(s_date) = 60 * interval.v
                /\ e_date.S = s_date.S
                /\ DtLess(s_date, e_date)
          /\ outcome = "returned" => ExecutedPositions = AllPositions

\* An update of 3 hours at 02:47:31 on 1 January: the window starts in the
\* year before; the run completed over two meters.
C7_Witness ==
    /\ mode = "update"
    /\ interval = PyInt(3)
    /\ now = Dt(2023, 1, 1, 2, 47, 31)
    /\ start = format_dt(Dt(2022, 12, 31, 23, 45, 0))
    /\ outcome = "returned"
    /\ Len(executed) = 2

(***************************************************************************)
(* C8: run_update raises the invalid-interval error, without invoking      *)
(* run_batch and without any database or file activity, if and only if     *)
(* the interval is not an integer in 1..12; is_valid_interval is true      *)
(* exactly for the integers 1 <= x <= 12.                                  *)
(***************************************************************************)
IntegerIn1To12(x) == IsInteger(x) /\ 1 <= x.v /\ x.v <= 12

C8_InvalidIntervalRejected ==
    /\ \A x \in IntervalInputs : is_valid_interval(x) <=> IntegerIn1To12(x)
    /\ (mode = "update" /\ pc # "call")
       => /\ (outcome = IntervalError) <=> ~IntegerIn1To12(interval)
          /\ ~IntegerIn1To12(interval)
             => /\ pc = "done"
                /\ calls = <<>>
                /\ acquired = 0
                /\ session = "none"
                /\ executed = <<>>
                /\ DOMAIN files = {}
                /\ log = <<>>
    /\ mode = "batch" => outcome # IntervalError

\* Interval 13 was rejected.
C8_Witness ==
    /\ mode = "update"
    /\ interval = PyInt(13)
    /\ outcome = IntervalError
    /\ pc = "done"

\* Interval 12 was accepted and the run completed.
C8_WitnessAccepted ==
    /\ mode = "update"
    /\ interval = PyInt(12)
    /\ outcome = "returned"

(***************************************************************************)
(* C9: every output file is named                                          *)
(* {destination_id}T{formatted_start}T{formatted_end}.csv for the run's    *)
(* window; its first row is [destination id, destination name], followed   *)
(* by exactly one row [formatted timestamp, value] per reading of that     *)
(* meter's query, in the order of the result, none dropped, duplicated or  *)
(* taken from another meter's result.  The run's window is s_date, e_date; *)
(* a file cut short by an exception holds a prefix of its rows.            *)
(***************************************************************************)
ExpectedRows(k) ==
    [j \in 1..Len(returned[k]) |->
        << make_lucid_ts(returned[k][j].TimestampUTC), returned[k][j].Value >>]

C9_FileNameAndContents ==
    \A p \in DOMAIN files :
       \E k \in WithData :
          LET m == meters[k + 1]
          IN  /\ p.dir = Downloads(root)
              /\ p.name = << m.lucid_id, "T", make_lucid_ts(DtStr(s_date)),
                             "T", make_lucid_ts(DtStr(e_date)), ".csv" >>
              /\ Len(files[p]) >= 1
              /\ files[p][1] = << m.lucid_id, m.lucid_name >>
              /\ IsPrefix(Tail(files[p]), ExpectedRows(k))
              /\ (outcome = "returned" \/ (~fault /\ i > k))
                 => Tail(files[p]) = ExpectedRows(k)

\* A completed run that wrote two files, one of them with two readings.
C9_Witness ==
    /\ outcome = "returned"
    /\ Cardinality(DOMAIN files) = 2
    /\ \E p \in DOMAIN files : Len(files[p]) = 3

====
